---- MODULE Spec2Model ----
(***************************************************************************)
(* Model of the MapleStory patch-log pipeline: the three scrapers          *)
(* (patch-scraper.py, patch-scraper-below-v165.py, patch-scraper-wayback.py)*)
(* that write one JSON unit per version into patch-jsons/, and the merger  *)
(* (json-to-md.py) that prepends rendered blocks to README.md.             *)
(*                                                                         *)
(* Text is a sequence of tokens.  Characters that the code inspects        *)
(* (letters of a version, digits, separators, white space) are one-char    *)
(* tokens; literal markup the code emits or searches as a whole            *)
(* ("<summary>", "</details>", ...) and words of page text are single      *)
(* tokens.                                                                 *)
(***************************************************************************)
EXTENDS Integers, Sequences, FiniteSets, TLC

VARIABLES
    store,        \* patch-jsons/: file stem -> unit, or NoUnit
    readmeExists, \* OUTPUT_FILE.exists()
    readme,       \* text of README.md (<<>> while it does not exist)
    out,          \* the last line the running script printed
    pc,           \* "idle" | "running" | "aborted": the batch loop of a scraper
    script,       \* which scraper is running: "modern" | "legacy" | "wayback"
    overwrite,    \* args.overwrite of the running scraper
    urls,         \* the URL list of the running scraper
    i,            \* index of the next URL of the for loop
    attempted,    \* URLs on which scrape was called, in call order
    resolved      \* the last call of a script's version function and its result

vars ==
    <<store, readmeExists, readme, out, pc, script, overwrite, urls, i, attempted,
      resolved>>

(***************************** bounds **************************************)
\* Longest URL list given to one scraper run.
MaxUrls == 2
\* Merges are enabled while README.md holds fewer than this many blocks.
MaxBlocks == 3

(***************************** text ****************************************)
Digits == {"0", "1", "2", "3", "4", "5", "6", "7", "8", "9"}

Letters == {"v", "V", "a", "b", "c", "d", "x", "N", "U"}

\* \s of Python's re
IsSpace(c) == c \in {" ", "\n"}

\* \d of Python's re
IsDigit(c) == c \in Digits

\* \w of Python's re: letters, digits and the underscore
IsWord(c) == c \in Digits \cup Letters \cup {"_", "unknown_"}

DigitVal(c) ==
    CASE c = "0" -> 0 [] c = "1" -> 1 [] c = "2" -> 2 [] c = "3" -> 3
      [] c = "4" -> 4 [] c = "5" -> 5 [] c = "6" -> 6 [] c = "7" -> 7
      [] c = "8" -> 8 [] c = "9" -> 9

\* int() of a digit string
RECURSIVE IntOf(_)
IntOf(ds) ==
    IF ds = <<>> THEN 0
    ELSE 10 * IntOf(SubSeq(ds, 1, Len(ds) - 1)) + DigitVal(ds[Len(ds)])

\* str.lower() on the tokens of the model
ToLower(c) ==
    CASE c = "V" -> "v"
      [] c = "N" -> "n"
      [] c = "Overview" -> "overview"
      [] c = "Rewards" -> "rewards"
      [] c = "Check out" -> "check out"
      [] c = "Events" -> "events"
      [] c = "Combat" -> "combat"
      [] c = "Patch" -> "patch"
      [] c = "Notes" -> "notes"
      [] c = "Update" -> "update"
      [] c = "Highlights" -> "highlights"
      [] OTHER -> c

Lower(s) == [k \in 1..Len(s) |-> ToLower(s[k])]

\* s.startswith(p)
StartsWith(s, p) == Len(s) >= Len(p) /\ SubSeq(s, 1, Len(p)) = p

\* first index >= p whose token is not white space (a digit), Len(s)+1 if none
RECURSIVE SkipSpaces(_, _)
SkipSpaces(s, p) ==
    IF p <= Len(s) /\ IsSpace(s[p]) THEN SkipSpaces(s, p + 1) ELSE p

RECURSIVE SkipDigits(_, _)
SkipDigits(s, p) ==
    IF p <= Len(s) /\ IsDigit(s[p]) THEN SkipDigits(s, p + 1) ELSE p

Spaces(n) == [k \in 1..n |-> " "]

\* sep.join(parts)
RECURSIVE Join(_, _)
Join(sep, parts) ==
    IF parts = <<>> THEN <<>>
    ELSE IF Len(parts) = 1 THEN parts[1]
    ELSE parts[1] \o sep \o Join(sep, Tail(parts))

\* Optional values: Python's None against a string
None == [some |-> FALSE]

Some(s) == [some |-> TRUE, val |-> s]

\* truthiness of an optional string: neither None nor ""
Truthy(o) == o.some /\ o.val # <<>>

(***************************** json-to-md.py *******************************)
\* extract_version_num: int of the first digit run of the version, else 0
RECURSIVE FirstDigit(_, _)
FirstDigit(s, p) ==
    IF p > Len(s) THEN 0
    ELSE IF IsDigit(s[p]) THEN p ELSE FirstDigit(s, p + 1)

extract_version_num(version) ==
    LET p == FirstDigit(version, 1)
    IN IF p = 0 THEN 0 ELSE IntOf(SubSeq(version, p, SkipDigits(version, p) - 1))

\* section.startswith("__")
IsReserved(section) == StartsWith(section, <<"_", "_">>)

\* the "     - {section}: {item}" lines of one section
ItemLines(sec) ==
    [k \in 1..Len(sec.items) |->
        Spaces(5) \o <<"-", " ">> \o sec.name \o <<":", " ">> \o sec.items[k]]

RECURSIVE SectionLines(_)
SectionLines(sections) ==
    IF sections = <<>> THEN <<>>
    ELSE (IF IsReserved(sections[1].name) THEN <<>> ELSE ItemLines(sections[1]))
         \o SectionLines(Tail(sections))

\* format_patch_summary
format_patch_summary(version, date, url, title, sections) ==
    LET date_part == IF Truthy(date) THEN <<" ", "(">> \o date.val \o <<")">> ELSE <<>>
        title_part == IF Truthy(title) THEN <<" ", "-", " ">> \o title.val ELSE <<>>
        summary == version \o date_part \o title_part
        head == <<"<details>", "\n">> \o Spaces(2) \o <<"<summary>", "\n">>
                \o Spaces(12) \o summary \o <<"\n">> \o Spaces(2) \o <<"</summary>">>
        urlp == IF Truthy(url)
                THEN << <<"\n">> \o Spaces(2) \o <<"URL:", " ">> \o url.val \o <<"\n">> >>
                ELSE <<>>
        md == <<head>> \o urlp \o SectionLines(sections) \o << <<"</details>", "\n">> >>
    IN Join(<<"\n">>, md)

\* r"<summary>\s*([vV]?\d+)" matched at p: [found, from, to), the group
SummaryVersionAt(text, p) ==
    LET a == SkipSpaces(text, p + 1)
        b == IF a <= Len(text) /\ text[a] \in {"v", "V"} THEN a + 1 ELSE a
        e == SkipDigits(text, b)
    IN IF text[p] = "<summary>" /\ e > b
       THEN [found |-> TRUE, from |-> a, to |-> e]
       ELSE [found |-> FALSE]

\* re.findall(r"<summary>\s*([vV]?\d+)", text): a match holds one "<summary>", at
\* its start, so matches never overlap and every position that matches is found
FindVersions(text) ==
    LET at == SelectSeq([p \in 1..Len(text) |-> p],
                        LAMBDA p : SummaryVersionAt(text, p).found)
    IN [k \in 1..Len(at) |->
          SubSeq(text, SummaryVersionAt(text, at[k]).from,
                 SummaryVersionAt(text, at[k]).to - 1)]

\* extract_versions_from_readme
extract_versions_from_readme(exists, text) ==
    IF ~exists THEN <<>> ELSE FindVersions(text)

\* patches as load_patches builds them from the files globbed in `order`
load_patches(order) ==
    [k \in 1..Len(order) |->
        [version |-> order[k],
         date |-> store[order[k]].date,
         url |-> store[order[k]].url,
         title |-> store[order[k]].title,
         sections |-> SelectSeq(store[order[k]].sections,
                                LAMBDA sec : ~IsReserved(sec.name))]]

\* [p for p in patches if p["version"] not in existing_versions]
new_patches_of(patches, existing_versions) ==
    SelectSeq(patches, LAMBDA p : p.version \notin existing_versions)

\* an insertion that puts an element before the elements of equal key
InsertDescUnstable(sorted, x) ==
    LET k == extract_version_num(x.version)
        n == Cardinality({j \in 1..Len(sorted) :
                            extract_version_num(sorted[j].version) > k})
    IN SubSeq(sorted, 1, n) \o <<x>> \o SubSeq(sorted, n + 1, Len(sorted))

\* list.sort(key=extract_version_num, reverse=True) is stable: an element goes
\* after every element whose key is greater or equal
InsertDesc(sorted, x) ==
    LET k == extract_version_num(x.version)
        n == Cardinality({j \in 1..Len(sorted) :
                            extract_version_num(sorted[j].version) >= k})
    IN SubSeq(sorted, 1, n) \o <<x>> \o SubSeq(sorted, n + 1, Len(sorted))

\* the same sort without reverse=True
InsertAsc(sorted, x) ==
    LET k == extract_version_num(x.version)
        n == Cardinality({j \in 1..Len(sorted) :
                            extract_version_num(sorted[j].version) <= k})
    IN SubSeq(sorted, 1, n) \o <<x>> \o SubSeq(sorted, n + 1, Len(sorted))

RECURSIVE SortAsc(_)
SortAsc(ps) ==
    IF ps = <<>> THEN <<>>
    ELSE InsertAsc(SortAsc(SubSeq(ps, 1, Len(ps) - 1)), ps[Len(ps)])

RECURSIVE SortDesc(_)
SortDesc(ps) ==
    IF ps = <<>> THEN <<>>
    ELSE InsertDesc(SortDesc(SubSeq(ps, 1, Len(ps) - 1)), ps[Len(ps)])

\* new_md_blocks, then new_content = "\n".join(new_md_blocks) + "\n"
new_content_of(sorted) ==
    Join(<<"\n">>,
         [k \in 1..Len(sorted) |->
            format_patch_summary(sorted[k].version, sorted[k].date, sorted[k].url,
                                 sorted[k].title, sorted[k].sections)])
    \o <<"\n">>

\* the new content put after the old text
CombinedAppended(new_content, old_text) == old_text \o <<"\n", "\n">> \o new_content

\* combined = new_content + "\n\n" + old_text
Combined(new_content, old_text) == new_content \o <<"\n", "\n">> \o old_text

(***************************** dictionaries ********************************)
\* A Python dict (insertion ordered) is a sequence of [name, items] entries.
HasKey(d, k) == \E j \in 1..Len(d) : d[j].name = k

\* d[k] = v: replaces the value of an existing key in place, else appends the key
DictSet(d, k, v) ==
    IF HasKey(d, k)
    THEN [j \in 1..Len(d) |-> IF d[j].name = k THEN [name |-> k, items |-> v] ELSE d[j]]
    ELSE Append(d, [name |-> k, items |-> v])

\* d[k].append(x)
DictAppend(d, k, x) ==
    [j \in 1..Len(d) |->
        IF d[j].name = k THEN [name |-> k, items |-> Append(d[j].items, x)] ELSE d[j]]

\* What a call gives: a value, or an exception of some class
Ok(v) == [raised |-> FALSE, val |-> v]

Raise(e) == [raised |-> TRUE, exc |-> e]

(***************************** patch-scraper.py ****************************)
\* ul.find("a", href=lambda h: h and h.startswith("#"))
HasInPageAnchor(ul) ==
    \E j \in 1..Len(ul) :
        ul[j].name = "a" /\ ul[j].href.some /\ StartsWith(ul[j].href.val, <<"#">>)

\* the loop over ul.find_all(["strong", "a"]): st = [sections, current]
RECURSIVE ModernWalk(_, _, _)
ModernWalk(els, k, st) ==
    IF k > Len(els) THEN st.sections
    ELSE IF els[k].name = "strong"
    THEN ModernWalk(els, k + 1,
                    [sections |-> DictSet(st.sections, els[k].text, <<>>),
                     current |-> Some(els[k].text)])
    ELSE IF els[k].name = "a" /\ Truthy(st.current)
    THEN ModernWalk(els, k + 1,
                    [sections |-> DictAppend(st.sections, st.current.val, els[k].text),
                     current |-> st.current])
    ELSE ModernWalk(els, k + 1, st)

\* extract_modern_nav, from the k-th <ul> of the document on
RECURSIVE ModernFrom(_, _)
ModernFrom(uls, k) ==
    IF k > Len(uls) THEN <<>>
    ELSE IF HasInPageAnchor(uls[k])
    THEN LET sections == ModernWalk(uls[k], 1, [sections |-> <<>>, current |-> None])
         IN IF sections # <<>> THEN sections ELSE ModernFrom(uls, k + 1)
    ELSE ModernFrom(uls, k + 1)

extract_modern_nav(soup) == ModernFrom(soup.uls, 1)

\* headings.sort(key=lambda t: t.sourceline or 0): stable, ascending
InsertByLine(sorted, h) ==
    LET n == Cardinality({j \in 1..Len(sorted) : sorted[j].line <= h.line})
    IN SubSeq(sorted, 1, n) \o <<h>> \o SubSeq(sorted, n + 1, Len(sorted))

RECURSIVE SortByLine(_)
SortByLine(hs) ==
    IF hs = <<>> THEN <<>>
    ELSE InsertByLine(SortByLine(SubSeq(hs, 1, Len(hs) - 1)), hs[Len(hs)])

\* the loop over heading.parent.next_siblings, collecting into items
RECURSIVE LegacyNavSibs(_, _, _)
LegacyNavSibs(sibs, k, items) ==
    IF k > Len(sibs) THEN items
    ELSE IF sibs[k].name \in {"h2", "h3"} \/ sibs[k].hasStrong THEN items
    ELSE IF sibs[k].name = "ul"
    THEN LegacyNavSibs(sibs, k + 1,
                       items \o SelectSeq(sibs[k].lis, LAMBDA t : t # <<>>))
    ELSE IF sibs[k].name = "p" /\ sibs[k].text # <<>>
    THEN LegacyNavSibs(sibs, k + 1, Append(items, sibs[k].text))
    ELSE LegacyNavSibs(sibs, k + 1, items)

RECURSIVE LegacyNavWalk(_, _, _)
LegacyNavWalk(headings, k, nav) ==
    IF k > Len(headings) THEN nav
    ELSE IF headings[k].title = <<>> THEN LegacyNavWalk(headings, k + 1, nav)
    ELSE LegacyNavWalk(headings, k + 1,
                       DictSet(nav, headings[k].title,
                               LegacyNavSibs(headings[k].sibs, 1, <<>>)))

\* extract_legacy_nav: h2/h3 tags, then <strong> children of <p>, in DOM order
extract_legacy_nav(soup) ==
    LegacyNavWalk(SortByLine(soup.hs \o soup.ps), 1, <<>>)

\* extract_nav_section
extract_nav_section(soup) ==
    LET nav == extract_modern_nav(soup)
    IN IF nav # <<>> THEN nav ELSE extract_legacy_nav(soup)

(***************************** patch-scraper-below-v165.py *****************)
EXCLUDE ==
    {<<"overview">>, <<"gameplay">>, <<"rewards">>, <<"requirement">>,
     <<"beginner">>, <<"1st job">>, <<"2nd job">>, <<"3rd job">>, <<"4th job">>,
     <<"hyper skills">>}

\* the loop over h1.next_siblings, collecting the <h3><strong> items
RECURSIVE LegacyItems(_, _, _)
LegacyItems(sibs, k, items) ==
    IF k > Len(sibs) THEN items
    ELSE IF sibs[k].name = "h1" THEN items
    ELSE IF sibs[k].name = "h3" /\ sibs[k].strong.some
            /\ sibs[k].strong.val # <<>>
            /\ Lower(sibs[k].strong.val) \notin EXCLUDE
    THEN LegacyItems(sibs, k + 1, Append(items, sibs[k].strong.val))
    ELSE LegacyItems(sibs, k + 1, items)

\* the assignment without its "if items:"
KeepEmptySection(sections, header, items) == DictSet(sections, header, items)

\* if items: sections[header] = items
KeepSection(sections, header, items) ==
    IF items # <<>> THEN DictSet(sections, header, items) ELSE sections

RECURSIVE LegacyWalk(_, _, _)
LegacyWalk(h1s, k, sections) ==
    IF k > Len(h1s) THEN sections
    ELSE IF ~h1s[k].strong.some THEN LegacyWalk(h1s, k + 1, sections)
    ELSE IF StartsWith(Lower(h1s[k].strong.val), <<"check out">>)
    THEN LegacyWalk(h1s, k + 1, sections)
    ELSE LegacyWalk(h1s, k + 1,
                    KeepSection(sections, h1s[k].strong.val,
                                LegacyItems(h1s[k].sibs, 1, <<>>)))

\* parse_legacy_sections
parse_legacy_sections(soup) == LegacyWalk(soup.h1s, 1, <<>>)

(***************************** patch-scraper-wayback.py ********************)
\* next_ul.name.startswith("h")
NameStartsWithH(name) == name \in {"h1", "h2", "h3", "h4", "hr"}

\* the while loop looking for the <ul> after a <p>: index of that <ul>, else 0
RECURSIVE NextUl(_, _)
NextUl(sibs, j) ==
    IF j > Len(sibs) THEN 0
    ELSE IF sibs[j].name = "ul" THEN j
    ELSE IF NameStartsWithH(sibs[j].name) THEN 0
    ELSE NextUl(sibs, j + 1)

\* if items: result[section] = items
KeepTocSection(result, section, items) ==
    IF items # <<>> THEN DictSet(result, section, items) ELSE result

\* the while loop of parse_wayback_toc over the siblings after the TOC heading
RECURSIVE TocWalk(_, _, _)
TocWalk(sibs, k, result) ==
    IF k > Len(sibs) THEN result
    ELSE IF sibs[k].name = "h1" THEN result
    ELSE IF sibs[k].name = "div" /\ "hr" \in sibs[k].classes THEN result
    ELSE IF sibs[k].name # "p" \/ ~sibs[k].b.some THEN TocWalk(sibs, k + 1, result)
    ELSE IF sibs[k].ul.some
    THEN TocWalk(sibs, k + 1, KeepTocSection(result, sibs[k].b.val, sibs[k].ul.val))
    ELSE LET j == NextUl(sibs, k + 1)
         IN IF j # 0
            THEN TocWalk(sibs, k + 1, KeepTocSection(result, sibs[k].b.val, sibs[j].lis))
            ELSE TocWalk(sibs, k + 1, result)

\* parse_wayback_toc
parse_wayback_toc(soup) ==
    IF ~soup.toc.some THEN Raise("RuntimeError")
    ELSE LET result == TocWalk(soup.toc.val, 1, <<>>)
         IN IF result = <<>> THEN Raise("RuntimeError") ELSE Ok(result)

\* len(text) of a token sequence: the characters of its tokens
RECURSIVE CharLen(_)
CharLen(text) == IF text = <<>> THEN 0 ELSE Len(text[1]) + CharLen(Tail(text))

RECURSIVE HeadingsWalk(_, _, _)
HeadingsWalk(headers, k, result) ==
    IF k > Len(headers) THEN result
    ELSE IF headers[k].text # <<>> /\ CharLen(headers[k].text) < 80
    THEN HeadingsWalk(headers, k + 1, DictSet(result, headers[k].text, <<>>))
    ELSE HeadingsWalk(headers, k + 1, result)

\* parse_headings_as_toc
parse_headings_as_toc(soup) ==
    IF Len(soup.h1s) < 2 THEN Raise("RuntimeError")
    ELSE Ok(HeadingsWalk(soup.h1s, 2, <<>>))

\* try: toc = parse_wayback_toc(soup)  except RuntimeError: parse_headings_as_toc
wayback_toc(soup) ==
    LET toc == parse_wayback_toc(soup)
    IN IF toc.raised /\ toc.exc = "RuntimeError" THEN parse_headings_as_toc(soup)
       ELSE toc

(***************************** version patterns ****************************)
\* \d{lo,hi}\b at q, greedy: the end of the longest run of k digits, lo <= k <= hi,
\* that a word boundary follows; 0 if there is none
RECURSIVE DigitsThenBoundary(_, _, _, _)
DigitsThenBoundary(s, q, lo, k) ==
    IF k < lo THEN 0
    ELSE IF q + k - 1 <= Len(s)
            /\ (\A j \in q..(q + k - 1) : IsDigit(s[j]))
            /\ (q + k > Len(s) \/ ~IsWord(s[q + k]))
    THEN q + k
    ELSE DigitsThenBoundary(s, q, lo, k - 1)

\* match of \bv[seps]?(\d{lo,hi})\b (re.I) starting at p:
\* [found, from, digits, to), the digits being s[digits..to-1]
VersionAt(s, p, seps, lo, hi) ==
    IF ~(s[p] \in {"v", "V"} /\ (p = 1 \/ ~IsWord(s[p - 1])))
    THEN [found |-> FALSE]
    ELSE LET q == IF p + 1 <= Len(s) /\ s[p + 1] \in seps THEN p + 2 ELSE p + 1
             e == DigitsThenBoundary(s, q, lo, hi)
         IN IF e = 0 THEN [found |-> FALSE]
            ELSE [found |-> TRUE, from |-> p, digits |-> q, to |-> e]

\* re.search of that pattern: the leftmost match
RECURSIVE VersionSearchFrom(_, _, _, _, _)
VersionSearchFrom(s, p, seps, lo, hi) ==
    IF p > Len(s) THEN [found |-> FALSE]
    ELSE LET m == VersionAt(s, p, seps, lo, hi)
         IN IF m.found THEN m ELSE VersionSearchFrom(s, p + 1, seps, lo, hi)

VersionSearch(s, seps, lo, hi) == VersionSearchFrom(s, 1, seps, lo, hi)

\* f"unknown_{int(time.time())}", the clock reading at the call being `now`
Unknown(now) == <<"unknown_">> \o now

\* patch-scraper.py extract_patch_version: the title's pattern, else the URL's;
\* group(0) without "." and "-", lower-cased
extract_patch_version(soup, url, now) ==
    LET title == IF soup.title.some THEN soup.title.val ELSE <<>>
        mt == VersionSearch(title, {".", "-"}, 2, 3)
        mu == VersionSearch(url, {"-"}, 2, 3)
        g0 == IF mt.found THEN SubSeq(title, mt.from, mt.to - 1)
              ELSE SubSeq(url, mu.from, mu.to - 1)
    IN IF mt.found \/ mu.found
       THEN Lower(SelectSeq(g0, LAMBDA c : c \notin {".", "-"}))
       ELSE Unknown(now)

\* patch-scraper-below-v165.py extract_version: VERSION_RE on the URL, else on
\* the title; "v" followed by group(1)
extract_version(soup, url, now) ==
    LET seps == {".", "-", " ", "\n"}
        mu == VersionSearch(url, seps, 2, 3)
        mt == IF soup.title.some THEN VersionSearch(soup.title.val, seps, 2, 3)
              ELSE [found |-> FALSE]
    IN IF mu.found THEN <<"v">> \o SubSeq(url, mu.digits, mu.to - 1)
       ELSE IF mt.found THEN <<"v">> \o SubSeq(soup.title.val, mt.digits, mt.to - 1)
       ELSE Unknown(now)

\* patch-scraper-wayback.py version_from: three digits, URL first, else title
version_from(url, soup, now) ==
    LET seps == {".", "-", " ", "\n"}
        mu == VersionSearch(url, seps, 3, 3)
        mt == IF soup.title.some THEN VersionSearch(soup.title.val, seps, 3, 3)
              ELSE [found |-> FALSE]
    IN IF mu.found THEN <<"v">> \o SubSeq(url, mu.digits, mu.to - 1)
       ELSE IF mt.found THEN <<"v">> \o SubSeq(soup.title.val, mt.digits, mt.to - 1)
       ELSE Unknown(now)

(***************************** date and title ******************************)
\* the token of the en dash (U+2013) of TITLE_CLEAN_RE and strip(" \u2013-")
EnDash == "ndash"

\* str.strip(chars)
RECURSIVE LStrip(_, _)
LStrip(s, chars) ==
    IF s # <<>> /\ s[1] \in chars THEN LStrip(Tail(s), chars) ELSE s

RECURSIVE RStrip(_, _)
RStrip(s, chars) ==
    IF s # <<>> /\ s[Len(s)] \in chars
    THEN RStrip(SubSeq(s, 1, Len(s) - 1), chars) ELSE s

Strip(s, chars) == RStrip(LStrip(s, chars), chars)

\* index of the first token c at or after p, 0 if none
RECURSIVE IndexOf(_, _, _)
IndexOf(s, c, p) ==
    IF p > Len(s) THEN 0 ELSE IF s[p] = c THEN p ELSE IndexOf(s, c, p + 1)

\* re.sub(r"^\s*\[.*?\]\s*", "", raw)
StripBracket(raw) ==
    LET a == SkipSpaces(raw, 1)
        b == IF a <= Len(raw) /\ raw[a] = "[" THEN IndexOf(raw, "]", a + 1) ELSE 0
    IN IF b = 0 THEN raw ELSE SubSeq(raw, SkipSpaces(raw, b + 1), Len(raw))

\* re.sub(r"^<lead>[Vv][seps]?\d{1,maxd}\s*[dashes]\s*", "", raw): the digit run
\* must end where white space or a dash follows, so it is the whole run
StripVersionPrefix(raw, lead, vs, seps, maxd, dashes) ==
    LET a == IF lead THEN SkipSpaces(raw, 1) ELSE 1
        q == IF a + 1 <= Len(raw) /\ raw[a + 1] \in seps THEN a + 2 ELSE a + 1
        e == SkipDigits(raw, q)
        d == SkipSpaces(raw, e)
    IN IF a <= Len(raw) /\ raw[a] \in vs
          /\ e > q /\ (maxd = 0 \/ e - q <= maxd)
          /\ d <= Len(raw) /\ raw[d] \in dashes
       THEN SubSeq(raw, SkipSpaces(raw, d + 1), Len(raw))
       ELSE raw

\* re.sub(r"\s*(Patch\s*Notes|Update\s*Highlights)\s*$", "", raw, flags=re.I)
StripSuffix(raw) ==
    LET e == Len(RStrip(raw, {" ", "\n"}))
        b == Len(RStrip(SubSeq(raw, 1, e - 1), {" ", "\n"}))
        ok == e >= 2 /\ b >= 1
              /\ <<ToLower(raw[b]), ToLower(raw[e])>>
                   \in {<<"patch", "notes">>, <<"update", "highlights">>}
    IN IF ok THEN RStrip(SubSeq(raw, 1, b - 1), {" ", "\n"}) ELSE raw

\* patch-scraper-below-v165.py extract_title
extract_title(soup) ==
    LET h1 == IF soup.newsTitle.some THEN soup.newsTitle
              ELSE IF soup.h1s # <<>> THEN Some(soup.h1s[1].text) ELSE None
    IN IF ~h1.some THEN <<>>
       ELSE Strip(StripSuffix(
                    StripVersionPrefix(StripBracket(h1.val), TRUE, {"v", "V"},
                                       {".", " ", "\n"}, 3, {EnDash, "-"})),
                  {" ", EnDash, "-"})

\* patch-scraper-below-v165.py extract_date
extract_date(soup) == IF soup.dateDiv.some THEN soup.dateDiv.val ELSE <<>>

\* re.sub(r"\s*Update Notes$", "", title, flags=re.I)
StripUpdateNotes(title) ==
    LET n == Len(title)
    IN IF n >= 3 /\ Lower(SubSeq(title, n - 2, n)) = <<"update", " ", "notes">>
       THEN RStrip(SubSeq(title, 1, n - 3), {" ", "\n"})
       ELSE title

\* patch-scraper-wayback.py title_from
title_from(soup) ==
    IF soup.hdr.some /\ soup.hdr.val.h4.some
    THEN Strip(StripUpdateNotes(
                 StripVersionPrefix(soup.hdr.val.h4.val, FALSE, {"v", "V"},
                                    {".", "-", " ", "\n"}, 0, {"-"})),
               {" ", "\n"})
    ELSE <<"Untitled">>

\* "%b" of strftime
MonthAbbr(m) ==
    CASE m = 1 -> "Jan" [] m = 2 -> "Feb" [] m = 3 -> "Mar" [] m = 4 -> "Apr"
      [] m = 5 -> "May" [] m = 6 -> "Jun" [] m = 7 -> "Jul" [] m = 8 -> "Aug"
      [] m = 9 -> "Sep" [] m = 10 -> "Oct" [] m = 11 -> "Nov" [] m = 12 -> "Dec"

DigitChar(n) ==
    CASE n = 0 -> "0" [] n = 1 -> "1" [] n = 2 -> "2" [] n = 3 -> "3"
      [] n = 4 -> "4" [] n = 5 -> "5" [] n = 6 -> "6" [] n = 7 -> "7"
      [] n = 8 -> "8" [] n = 9 -> "9"

IsLeap(y) == (y % 4 = 0 /\ y % 100 # 0) \/ y % 400 = 0

DaysIn(m, y) ==
    IF m = 2 THEN (IF IsLeap(y) THEN 29 ELSE 28)
    ELSE IF m \in {4, 6, 9, 11} THEN 30 ELSE 31

\* datetime.strptime(...).strftime("%b %d, %Y") of a month, a day and the four
\* digits of a year: ValueError when they are no date
FormatDate(m, d, ys) ==
    LET y == IntOf(ys)
    IN IF m \in 1..12 /\ y >= 1 /\ d >= 1 /\ d <= DaysIn(m, y)
       THEN Ok(<<MonthAbbr(m), " ", DigitChar(d \div 10), DigitChar(d % 10), ",", " ">>
               \o ys)
       ELSE Raise("ValueError")

\* \d{1,2}/\d{1,2}/\d{4} at p, the first number taking a digits: greedy on the
\* second number; [found, m, d, ys]
SlashDateAt(s, p, a) ==
    LET q == p + a + 1
        Fits(b) == p + a + b + 5 <= Len(s)
                   /\ (\A j \in p..(p + a - 1) : IsDigit(s[j]))
                   /\ s[p + a] = "/"
                   /\ (\A j \in q..(q + b - 1) : IsDigit(s[j]))
                   /\ s[q + b] = "/"
                   /\ (\A j \in (q + b + 1)..(q + b + 4) : IsDigit(s[j]))
        b == IF Fits(2) THEN 2 ELSE IF Fits(1) THEN 1 ELSE 0
    IN IF b = 0 THEN [found |-> FALSE]
       ELSE [found |-> TRUE, m |-> IntOf(SubSeq(s, p, p + a - 1)),
             d |-> IntOf(SubSeq(s, q, q + b - 1)),
             ys |-> SubSeq(s, q + b + 1, q + b + 4)]

\* re.search(r"(\d{1,2}/\d{1,2}/\d{4})", text): leftmost, greedy
RECURSIVE SlashDateFrom(_, _)
SlashDateFrom(s, p) ==
    IF p > Len(s) THEN [found |-> FALSE]
    ELSE IF SlashDateAt(s, p, 2).found THEN SlashDateAt(s, p, 2)
    ELSE IF SlashDateAt(s, p, 1).found THEN SlashDateAt(s, p, 1)
    ELSE SlashDateFrom(s, p + 1)

\* re.search(r"/web/(\d{14})/", url): the index of the first digit, 0 if none
RECURSIVE WebStampFrom(_, _)
WebStampFrom(url, p) ==
    IF p + 15 > Len(url) THEN 0
    ELSE IF url[p] = "/web/" /\ (\A j \in (p + 1)..(p + 14) : IsDigit(url[j]))
            /\ url[p + 15] = "/"
    THEN p + 1
    ELSE WebStampFrom(url, p + 1)

\* strptime(stamp, "%Y%m%d%H%M%S").strftime("%b %d, %Y")
FormatStamp(t) ==
    LET n(a, b) == IntOf(SubSeq(t, a, b))
    IN IF n(9, 10) <= 23 /\ n(11, 12) <= 59 /\ n(13, 14) <= 61
       THEN FormatDate(n(5, 6), n(7, 8), SubSeq(t, 1, 4))
       ELSE Raise("ValueError")

\* patch-scraper-wayback.py date_from
date_from(soup, url) ==
    LET info == IF soup.hdr.some /\ soup.hdr.val.info.some
                THEN SlashDateFrom(soup.hdr.val.info.val, 1)
                ELSE [found |-> FALSE]
        w == WebStampFrom(url, 1)
    IN IF info.found THEN FormatDate(info.m, info.d, info.ys)
       ELSE IF w # 0 THEN FormatStamp(SubSeq(url, w, w + 13))
       ELSE Ok(<<"Unknown">>)

(***************************** the three scrape functions ******************)
\* What one call of a scrape function did before it touches patch-jsons/:
\*   escaped: an exception left the function;  failed: it printed a failure;
\*   put: the version and the unit it goes on to write, if it got that far.
Wrote(ver, unit) == [escaped |-> FALSE, failed |-> FALSE, put |-> Some([ver |-> ver, unit |-> unit])]

Failed == [escaped |-> FALSE, failed |-> TRUE, put |-> None]

Escaped == [escaped |-> TRUE, failed |-> FALSE, put |-> None]

\* patch-scraper.py scrape_url: everything is inside try/except Exception
scrape_url(url, fetched, now) ==
    IF fetched.raised THEN Failed
    ELSE Wrote(extract_patch_version(fetched.val, url, now),
               [url |-> None, date |-> None, title |-> None,
                sections |-> extract_nav_section(fetched.val)])

\* patch-scraper-below-v165.py scrape: everything is inside try/except Exception
scrape_legacy(url, fetched, now) ==
    IF fetched.raised THEN Failed
    ELSE LET body == parse_legacy_sections(fetched.val)
         IN IF body = <<>> THEN Failed
            ELSE Wrote(extract_version(fetched.val, url, now),
                       [url |-> Some(url),
                        date |-> Some(extract_date(fetched.val)),
                        title |-> Some(extract_title(fetched.val)),
                        sections |-> body])

\* patch-scraper-wayback.py scrape: no try/except of its own but for RuntimeError
\* of parse_wayback_toc
scrape_wayback(url, fetched, now) ==
    IF fetched.raised THEN Escaped
    ELSE LET toc == wayback_toc(fetched.val)
             date == date_from(fetched.val, url)
         IN IF toc.raised THEN Escaped
            ELSE IF toc.val = <<>> THEN Escaped
            ELSE IF date.raised THEN Escaped
            ELSE Wrote(version_from(url, fetched.val, now),
                       [url |-> Some(url),
                        date |-> Some(date.val),
                        title |-> Some(title_from(fetched.val)),
                        sections |-> toc.val])

\* the call of scrape without the try/except around it
UncaughtInMain(r) == r

\* patch-scraper-wayback.py main: try: scrape(...) except Exception: print
CaughtInMain(r) == IF r.escaped THEN Failed ELSE r

\* one iteration of the for loop of the running script's main
Scrape(s, url, fetched, now) ==
    CASE s = "modern" -> scrape_url(url, fetched, now)
      [] s = "legacy" -> scrape_legacy(url, fetched, now)
      [] s = "wayback" -> CaughtInMain(scrape_wayback(url, fetched, now))

\* write_text without the test of out_file.exists()
PutAlways(files, ver, unit, ow) ==
    [files |-> [v \in DOMAIN files \cup {ver} |-> IF v = ver THEN unit ELSE files[v]],
     out |-> "ok"]

\* if out_file.exists() and not overwrite: skip, else write_text: the files after
\* the call and the line printed (the same code in the three scripts)
Put(files, ver, unit, ow) ==
    IF ver \in DOMAIN files /\ ~ow
    THEN [files |-> files, out |-> "skip"]
    ELSE [files |-> [v \in DOMAIN files \cup {ver} |->
                        IF v = ver THEN unit ELSE files[v]],
          out |-> "ok"]

\* the effect of one scrape call on patch-jsons/ and on the terminal
Effect(files, r, ow) ==
    IF r.put.some THEN Put(files, r.put.val.ver, r.put.val.unit, ow)
    ELSE [files |-> files, out |-> "fail"]

(***************************** inputs **************************************)
\* URLs, as the characters of their path
uM205 == <<"/", "v", "2", "0", "5">>

uNews == <<"/", "x">>

uL099 == <<"/", "v", "0", "9", "9">>

uL99 == <<"/", "v", "-", "9", "9">>

uDead == <<"/", "d">>

uW205 == <<"/web/", "2", "0", "1", "3", "0", "6", "1", "9", "0", "1", "0", "2",
           "0", "3", "/", "v", ".", "2", "0", "5">>

\* a heading of 80 characters
LongHeading ==
    <<"0123456789012345678901234567890123456789012345678901234567890123456789012345678x">>

\* a document in which every query finds nothing
NoPage ==
    [title |-> None, uls |-> <<>>, hs |-> <<>>, ps |-> <<>>, h1s |-> <<>>,
     toc |-> None, dateDiv |-> None, newsTitle |-> None, hdr |-> None]

A(text, href) == [name |-> "a", text |-> text, href |-> href]

Strong(text) == [name |-> "strong", text |-> text, href |-> None]

\* modern layout: a <ul> without in-page anchors, then the navigation <ul>, whose
\* last <strong> has no anchor after it
pModern ==
    [NoPage EXCEPT
        !.title = Some(<<"V", "2", "0", "5", " ", "N">>),
        !.uls = << <<Strong(<<"Menu">>), A(<<"x">>, Some(<<"/", "x">>))>>,
                   <<A(<<"c">>, Some(<<"#", "c">>)),
                     Strong(<<"Events">>), A(<<"a">>, Some(<<"#", "a">>)),
                     A(<<"b">>, None),
                     Strong(<<"Combat">>)>> >>]

H3(strong) == [name |-> "h3", strong |-> strong]

\* legacy layout: a banner, a heading without <strong>, a section with a
\* stop-listed item, a section with stop-listed items only
pLegacyA ==
    [NoPage EXCEPT
        !.title = Some(<<"N", " ", "v", "2", "0", "5">>),
        !.dateDiv = Some(<<"Aug", " ", "3", "0">>),
        !.newsTitle = Some(<<"[", "U", "]", " ", "v", "9", "9", " ", EnDash, " ",
                             "N", " ", "Patch", " ", "Notes">>),
        !.h1s = <<[text |-> <<"Check out", " ", "N">>,
                   strong |-> Some(<<"Check out", " ", "N">>), sibs |-> <<>>],
                  [text |-> LongHeading, strong |-> None,
                   sibs |-> <<H3(Some(<<"x">>))>>],
                  [text |-> <<"Events">>, strong |-> Some(<<"Events">>),
                   sibs |-> <<H3(Some(<<"Overview">>)), H3(Some(<<"a">>)), H3(None),
                              H3(Some(<<>>)),
                              [name |-> "h1", strong |-> None], H3(Some(<<"b">>))>>],
                  [text |-> <<"Combat">>, strong |-> Some(<<"Combat">>),
                   sibs |-> <<H3(Some(<<"Rewards">>))>>]>>]

Sib(name, hasStrong, lis, text) ==
    [name |-> name, hasStrong |-> hasStrong, lis |-> lis, text |-> text]

\* legacy layout with one section; for the fallback of patch-scraper.py: an <h2>
\* followed by a list and a paragraph, and a <p><strong> with nothing after it
pLegacyB ==
    [NoPage EXCEPT
        !.h1s = <<[text |-> <<"Events">>, strong |-> Some(<<"Events">>),
                   sibs |-> <<H3(Some(<<"c">>))>>]>>,
        !.ps = <<[line |-> 1, title |-> <<"Combat">>, sibs |-> <<>>],
                 [line |-> 9, title |-> <<>>, sibs |-> <<>>]>>,
        !.hs = <<[line |-> 4, title |-> <<"Events">>,
                  sibs |-> <<Sib("ul", FALSE, << <<"c">>, <<>> >>, <<>>),
                             Sib("p", FALSE, <<>>, <<"b">>),
                             Sib("p", TRUE, <<>>, <<"x">>),
                             Sib("p", FALSE, <<>>, <<"a">>)>>]>>]

Toc(name, classes, b, ul, lis) ==
    [name |-> name, classes |-> classes, b |-> b, ul |-> ul, lis |-> lis]

\* Wayback layout: a table of contents with an inline list, a following list, a
\* header with no list, ended by <div class="hr">
pWayback ==
    [NoPage EXCEPT
        !.title = Some(<<"N">>),
        !.hdr = Some([h4 |-> Some(<<"v", ".", "2", "0", "5", " ", "-", " ", "N", " ",
                                    "Update", " ", "Notes">>),
                      info |-> Some(<<"6", "/", "1", "9", "/", "2", "0", "1", "3">>)]),
        !.h1s = <<[text |-> <<"N">>, strong |-> None, sibs |-> <<>>],
                  [text |-> <<"Table of Contents">>, strong |-> None, sibs |-> <<>>]>>,
        !.toc = Some(<<Toc("p", {}, Some(<<"Events">>), Some(<< <<"a">> >>), <<>>),
                       Toc("p", {}, None, None, <<>>),
                       Toc("p", {}, Some(<<"Combat">>), None, <<>>),
                       Toc("span", {}, None, None, <<>>),
                       Toc("ul", {}, None, None, << <<"b">>, <<"c">> >>),
                       Toc("p", {}, Some(<<"Menu">>), None, <<>>),
                       Toc("h2", {}, None, None, <<>>),
                       Toc("p", {}, Some(<<"Rewards">>), Some(<<>>), <<>>),
                       Toc("div", {"hr"}, None, None, <<>>),
                       Toc("p", {}, Some(<<"x">>), Some(<< <<"x">> >>), <<>>)>>)]

\* what is served at each URL
Web(url) ==
    CASE url = uM205 -> pModern
      [] url = uL099 -> pLegacyA
      [] url = uL99 -> pLegacyB
      [] url = uW205 -> pWayback
      [] OTHER -> NoPage

\* the outcomes of fetching a URL: the document, or the fetch raises
Fetch(url) == IF url = uDead THEN {Raise("FetchError")} ELSE {Ok(Web(url))}

\* readings of time.time()
Times == {<<"1", "7", "0", "0">>}

\* the URLs listed in the url file of each script
UrlFile(s) ==
    CASE s = "modern" -> {uM205, uNews, uL99}
      [] s = "legacy" -> {uL099, uNews, uDead}
      [] s = "wayback" -> {uW205, uL099, uNews}

Scripts == {"modern", "legacy", "wayback"}

\* a README.md written by hand before the first merge
HandWritten ==
    <<"#", " ", "N", "\n", "<summary>", " ", " ", "v", "2", "0", "5", " ", "(",
      "Aug", ")", " ", "</summary>", "\n">>

(***************************** state machine *******************************)
\* the sequences without repetition of all the members of a set
RECURSIVE Orders(_)
Orders(S) ==
    IF S = {} THEN {<<>>}
    ELSE UNION {{<<x>> \o o : o \in Orders(S \ {x})} : x \in S}

\* the lists of at most n URLs of a url file
RECURSIVE UrlLists(_, _)
UrlLists(S, n) ==
    IF n = 0 THEN {<<>>}
    ELSE UrlLists(S, n - 1)
         \cup {Append(l, u) : l \in {m \in UrlLists(S, n - 1) : Len(m) = n - 1}, u \in S}

\* number of <summary> markers of a text
Blocks(text) == Len(SelectSeq(text, LAMBDA c : c = "<summary>"))

\* no version function has been called
NoCall == [script |-> "none", url |-> <<>>, title |-> None, now |-> <<>>,
           version |-> <<>>]

Init ==
    /\ store = <<>>
    /\ \/ readmeExists = FALSE /\ readme = <<>>
       \/ readmeExists = TRUE /\ readme = HandWritten
    /\ out = "none"
    /\ pc = "idle"
    /\ script = "none"
    /\ overwrite = FALSE
    /\ urls = <<>>
    /\ i = 1
    /\ attempted = <<>>
    /\ resolved = NoCall

\* set(extract_versions_from_readme(OUTPUT_FILE))
existing_versions_of(exists, text) ==
    LET versions == extract_versions_from_readme(exists, text)
    IN {versions[k] : k \in 1..Len(versions)}

\* json-to-md.py main, the directory listing coming in `order`
MergeIn(order, existing_versions) ==
    LET patches == load_patches(order)
        new_patches == new_patches_of(patches, existing_versions)
        old_text == IF readmeExists THEN readme ELSE <<>>
        combined == Combined(new_content_of(SortDesc(new_patches)), old_text)
    IN IF new_patches = <<>>
       THEN /\ out' = "nonew"
            /\ UNCHANGED <<readme, readmeExists>>
       ELSE /\ Blocks(combined) <= MaxBlocks
            /\ readme' = combined
            /\ readmeExists' = TRUE
            /\ out' = "added"

Merge ==
    /\ pc = "idle"
    /\ LET existing_versions == existing_versions_of(readmeExists, readme)
       IN \E order \in Orders(DOMAIN store) : MergeIn(order, existing_versions)
    /\ UNCHANGED <<store, pc, script, overwrite, urls, i, attempted, resolved>>

\* every call of a scrape function the inputs allow, and what it does: Scrape
\* does not read the state, so it is evaluated once for each call
Calls ==
    UNION {{<<s, url, fetched, now>> : fetched \in Fetch(url), now \in Times} :
             s \in Scripts, url \in UNION {UrlFile(t) : t \in Scripts}}

ScrapeOf == [c \in Calls |-> Scrape(c[1], c[2], c[3], c[4])]

\* a scraper run on one URL, from the start of main to its end
RunOne ==
    /\ pc = "idle"
    /\ \E s \in Scripts, ow \in BOOLEAN :
         \E url \in UrlFile(s) :
           \E fetched \in Fetch(url), now \in Times :
             LET r == ScrapeOf[<<s, url, fetched, now>>]
                 e == Effect(store, r, ow)
             IN /\ ~r.escaped
                /\ store' = e.files
                /\ out' = e.out
    /\ UNCHANGED <<readme, readmeExists, pc, script, overwrite, urls, i, attempted,
                   resolved>>

\* main of a scraper up to its for loop
StartBatch ==
    /\ pc = "idle"
    /\ \E s \in Scripts, ow \in BOOLEAN :
         \E l \in UrlLists(UrlFile(s), MaxUrls) :
            /\ l # <<>>
            /\ script' = s
            /\ overwrite' = ow
            /\ urls' = l
    /\ pc' = "running"
    /\ i' = 1
    /\ attempted' = <<>>
    /\ UNCHANGED <<store, readme, readmeExists, out, resolved>>

\* one iteration of the for loop over urls
ScrapeStep ==
    /\ pc = "running"
    /\ i <= Len(urls)
    /\ \E fetched \in Fetch(urls[i]), now \in Times :
         LET r == ScrapeOf[<<script, urls[i], fetched, now>>]
             e == Effect(store, r, overwrite)
         IN IF r.escaped
            THEN /\ pc' = "aborted"
                 /\ UNCHANGED <<store, out, i>>
            ELSE /\ store' = e.files
                 /\ out' = e.out
                 /\ i' = i + 1
                 /\ pc' = pc
    /\ attempted' = Append(attempted, urls[i])
    /\ UNCHANGED <<readme, readmeExists, script, overwrite, urls, resolved>>

\* the for loop is over: the process ends
EndBatch ==
    /\ pc = "running"
    /\ i > Len(urls)
    /\ pc' = "idle"
    /\ script' = "none"
    /\ overwrite' = FALSE
    /\ urls' = <<>>
    /\ i' = 1
    /\ attempted' = <<>>
    /\ UNCHANGED <<store, readme, readmeExists, out, resolved>>

\* the scrapers run on single URLs, and the merger
Next == RunOne \/ Merge

Spec == Init /\ [][Next]_vars

\* the scrapers run on URL lists
NextBatch == StartBatch \/ ScrapeStep \/ EndBatch

SpecBatch == Init /\ [][NextBatch]_vars

\* the merger and the scrapers, README.md not existing at the start
InitFresh == Init /\ ~readmeExists

SpecFresh == InitFresh /\ [][Next]_vars

\* URLs given to the version functions: a version, none, a version with a
\* separator, a Wayback address, four digits, a "v" inside a word, upper case,
\* two digits
VersionUrls ==
    {uM205, uNews, uL099, uL99, uW205,
     <<"/", "v", "2", "0", "5", "0">>,
     <<"/", "r", "e", "v", "2", "0", "5">>,
     <<"/", "V", "2", "0", "6", "/", "x">>,
     <<"/", "v", "7", "7">>}

\* texts of the <title> element: none, no version, versions with and without
\* separators, four digits
VersionTitles ==
    {None,
     Some(<<"N">>),
     Some(<<"V", "2", "0", "5", " ", "N">>),
     Some(<<"N", " ", "v", ".", "2", "0", "6">>),
     Some(<<"v", " ", "2", "0", "7", " ", "N">>),
     Some(<<"N", " ", "v", "-", "8", "8">>),
     Some(<<"v", "2", "0", "5", "0">>)}

\* the call of the version function in the scrape function of script s
VersionOf(s, soup, url, now) ==
    CASE s = "modern" -> extract_patch_version(soup, url, now)
      [] s = "legacy" -> extract_version(soup, url, now)
      [] s = "wayback" -> version_from(url, soup, now)

\* a script resolves the version of a document: of the document only the
\* <title> element is read
Resolve ==
    /\ \E s \in Scripts, url \in VersionUrls, title \in VersionTitles, now \in Times :
         resolved' = [script |-> s, url |-> url, title |-> title, now |-> now,
                      version |-> VersionOf(s, [NoPage EXCEPT !.title = title],
                                            url, now)]
    /\ UNCHANGED <<store, readmeExists, readme, out, pc, script, overwrite, urls, i,
                   attempted>>

NextVersion == Resolve

\* the version functions of the three scripts, called on URLs and titles
SpecVersion == InitFresh /\ [][NextVersion]_vars

(***************************** reading the aggregate ***********************)
\* first index >= p whose token is white space, Len(s)+1 if none
RECURSIVE SkipToSpace(_, _)
SkipToSpace(s, p) ==
    IF p <= Len(s) /\ ~IsSpace(s[p]) THEN SkipToSpace(s, p + 1) ELSE p

\* the leading token of every summary line of a text, top to bottom: the version
\* each block of the aggregate stands for
SummaryIds(text) ==
    LET at == SelectSeq([p \in 1..Len(text) |-> p], LAMBDA p : text[p] = "<summary>")
    IN [k \in 1..Len(at) |->
          SubSeq(text, SkipSpaces(text, at[k] + 1),
                 SkipToSpace(text, SkipSpaces(text, at[k] + 1)) - 1)]

Range(f) == {f[k] : k \in 1..Len(f)}

\* the integer embedded in a version identifier: its digits
EmbeddedInt(id) == IntOf(SelectSeq(id, IsDigit))

\* a sequence of identifiers in descending order of their integers
Descending(ids) ==
    \A a, b \in 1..Len(ids) : a < b => EmbeddedInt(ids[a]) >= EmbeddedInt(ids[b])

IsSuffix(t, s) == Len(t) <= Len(s) /\ SubSeq(s, Len(s) - Len(t) + 1, Len(s)) = t

\* position of x in a sequence without repetition
PosIn(o, x) == CHOOSE k \in 1..Len(o) : o[k] = x

vUnknown == Unknown(<<"1", "7", "0", "0">>)

v99 == <<"v", "9", "9">>

v099 == <<"v", "0", "9", "9">>

v205 == <<"v", "2", "0", "5">>

(***************************** C1 ******************************************)
\* C1: a merge run again on the same store contents finds no new version and
\* leaves README.md as the first run wrote it.
C1_MergeIdempotent ==
    [][(out' \in {"added", "nonew"} /\ Merge) =>
         \A order \in Orders(DOMAIN store) :
            new_patches_of(load_patches(order),
                           existing_versions_of(readmeExists', readme')) = <<>>]_vars

(***************************** C2 ******************************************)
\* C2: no version identifier stands on the summary line of more than one block
\* of README.md.
C2_NoDuplicateBlocks ==
    \A a, b \in 1..Len(SummaryIds(readme)) :
        a # b => SummaryIds(readme)[a] # SummaryIds(readme)[b]

(***************************** C3 ******************************************)
\* C3: a step that changes README.md (a merge that adds records) writes new
\* blocks in front of the previous text, which ends the new text verbatim with
\* its blocks below all the new ones; no version README.md shows is lost.
C3_PurePrepend ==
    [][readme' # readme =>
          /\ IsSuffix(readme, readme')
          /\ SubSeq(readme', 1, 1) = <<"<details>">>
          /\ \A old \in {SummaryIds(readme)}, new \in {SummaryIds(readme')} :
                /\ IsSuffix(old, new)
                /\ Len(new) > Len(old)
                /\ Range(old) \subseteq Range(new)]_vars

\* a merge has put a block in front of the hand-written text
C3_Witness ==
    /\ out = "added"
    /\ Len(readme) > Len(HandWritten)
    /\ IsSuffix(HandWritten, readme)

(***************************** C4 ******************************************)
\* the blocks a merge step added, as the identifiers of their summary lines
AddedIds == SubSeq(SummaryIds(readme'), 1,
                   Len(SummaryIds(readme')) - Len(SummaryIds(readme)))

\* C4: the blocks one merge adds are in descending order of the integer of their
\* version, and blocks with equal integers are in the order the records were
\* loaded in.  The load orders of a step are those under which main writes the
\* README.md of the step.
C4_NewBlocksSorted ==
    [][readme' # readme =>
         \A existing_versions \in {existing_versions_of(readmeExists, readme)},
            added \in {AddedIds} :
           \A nums \in {[k \in 1..Len(added) |-> EmbeddedInt(added[k])]} :
             \A order \in Orders(DOMAIN store) :
               MergeIn(order, existing_versions) =>
                 /\ \A a, b \in 1..Len(added) : a < b => nums[a] >= nums[b]
                 /\ \A a, b \in 1..Len(added) :
                      (a < b /\ nums[a] = nums[b])
                         => PosIn(order, added[a]) < PosIn(order, added[b])]_vars

\* one merge added v205 and, below it, the equal-numbered v099 and v99, v099
\* having been loaded first
C4_Witness ==
    /\ out = "added"
    /\ SummaryIds(readme) = <<v205, v099, v99>>

(***************************** C5 ******************************************)
\* C5 as stated: the blocks of the whole README.md are in descending numeric
\* order from top to bottom.  It is stated for stores of numbered versions, so
\* that its failure owes nothing to the blocks of a synthetic identifier, which
\* the scan of C6 does not see.
C5_WholeDescending ==
    (\A v \in DOMAIN store : v[1] = "v") => Descending(SummaryIds(readme))

\* C5 amended: a merge that adds no version lower than one README.md already
\* shows keeps a descending README.md descending.
C5_DescendingWhileNewer ==
    [][readme' # readme =>
         \A old \in {SummaryIds(readme)}, added \in {AddedIds} :
            (/\ Descending(old)
             /\ \A a \in 1..Len(added), b \in 1..Len(old) :
                   EmbeddedInt(added[a]) >= EmbeddedInt(old[b]))
            => Descending(SummaryIds(readme'))]_vars

\* a merge has left README.md, new at the start, showing v205 above v99
C5_Witness ==
    /\ out = "added"
    /\ SummaryIds(readme) = <<v205, v99>>

(***************************** C6 ******************************************)
\* C6: scanning the block rendered for a stored unit gives back exactly the
\* version the unit is stored under.
C6_RoundTrip ==
    \A v \in DOMAIN store :
        FindVersions(format_patch_summary(v, store[v].date, store[v].url,
                                          store[v].title, store[v].sections)) = <<v>>

(***************************** C7 ******************************************)
\* the files of `after` are those of `before` with the unit of ver set to unit
IsWrite(before, after, ver, unit) ==
    /\ DOMAIN after = DOMAIN before \cup {ver}
    /\ after[ver] = unit
    /\ \A v \in DOMAIN before \ {ver} : after[v] = before[v]

\* C7: a scrape that gets to the put of a version whose unit exists, overwrite
\* being false, changes no file and reports a skip; any other put leaves the new
\* record as the one unit of that version and touches no other unit.
C7_WritePolicy ==
    [][ScrapeStep =>
         \E fetched \in Fetch(urls[i]), now \in Times :
            LET r == Scrape(script, urls[i], fetched, now)
            IN IF ~r.put.some THEN store' = store /\ out' = "fail"
               ELSE IF r.put.val.ver \in DOMAIN store /\ ~overwrite
               THEN store' = store /\ out' = "skip"
               ELSE /\ IsWrite(store, store', r.put.val.ver, r.put.val.unit)
                    /\ out' = "ok"]_vars

\* the second URL of a list gave the version of the first and was skipped
C7_Witness ==
    /\ pc = "running"
    /\ ~overwrite
    /\ i = 3
    /\ out = "skip"
    /\ urls[1] = urls[2]

(***************************** C8 ******************************************)
\* the sections mapping the parser chain of a script gives for a document:
\* empty when no parser of the chain matches
ChainSections(s, soup) ==
    CASE s = "modern" -> extract_nav_section(soup)
      [] s = "legacy" -> parse_legacy_sections(soup)
      [] s = "wayback" -> IF wayback_toc(soup).raised THEN <<>>
                          ELSE wayback_toc(soup).val

\* C8: a scrape whose parser chain gives an empty sections mapping reports a
\* failure and leaves the store as it was.
C8_EmptyNotPersisted ==
    [][ScrapeStep =>
         \A fetched \in Fetch(urls[i]) :
            (~fetched.raised /\ ChainSections(script, fetched.val) = <<>>)
               => (store' = store /\ out' = "fail")]_vars

(***************************** C9 ******************************************)
\* C9: no failure ends the loop: scrape has been called on the URLs before the
\* i-th, in list order, and while the script runs it can go on.
C9_FailureIsolated ==
    /\ pc # "aborted"
    /\ attempted = SubSeq(urls, 1, i - 1)
    /\ pc = "running" => ENABLED (ScrapeStep \/ EndBatch)

\* the Wayback scraper went on to its second URL, and wrote its unit, after the
\* scrape of the first had raised
C9_Witness ==
    /\ pc = "running"
    /\ script = "wayback"
    /\ urls = <<uNews, uW205>>
    /\ attempted = urls
    /\ out = "ok"

(***************************** C10 *****************************************)
NoEmptySection(sections) == \A k \in 1..Len(sections) : sections[k].items # <<>>

ByPruningParser(s, soup) ==
    s = "legacy" \/ (s = "wayback" /\ ~parse_wayback_toc(soup).raised)

UrlPattern(s, url) ==
    CASE s = "modern" -> VersionSearch(url, {"-"}, 2, 3)
      [] s = "legacy" -> VersionSearch(url, {".", "-", " ", "\n"}, 2, 3)
      [] s = "wayback" -> VersionSearch(url, {".", "-", " ", "\n"}, 3, 3)

\* the version pattern of script s found in the text of a title
TitlePattern(s, text) ==
    CASE s = "modern" -> VersionSearch(text, {".", "-"}, 2, 3)
      [] s = "legacy" -> VersionSearch(text, {".", "-", " ", "\n"}, 2, 3)
      [] s = "wayback" -> VersionSearch(text, {".", "-", " ", "\n"}, 3, 3)

\* "v" followed by the digits of a match m in text
Normalized(text, m) == <<"v">> \o SubSeq(text, m.digits, m.to - 1)

\* v<digits>
IsVDigits(id) ==
    /\ Len(id) >= 2
    /\ id[1] = "v"
    /\ \A k \in 2..Len(id) : IsDigit(id[k])

\* C11: the version a script resolves is that of the pattern in the URL if the
\* URL has one, else that of the pattern in the title if the title has one, else
\* the synthetic identifier of the clock; a version taken from a pattern has the
\* form v<digits>.  The pattern is the one the script itself searches, so that
\* only the order of the sources is in question.
C11_UrlThenTitle ==
    resolved.script # "none" =>
       LET s == resolved.script
           text == IF resolved.title.some THEN resolved.title.val ELSE <<>>
           mu == UrlPattern(s, resolved.url)
           mt == TitlePattern(s, text)
       IN /\ resolved.version =
               IF mu.found THEN Normalized(resolved.url, mu)
               ELSE IF mt.found THEN Normalized(text, mt)
               ELSE Unknown(resolved.now)
          /\ (mu.found \/ mt.found) => IsVDigits(resolved.version)

====
